---- MODULE Spec2Model ----
(***************************************************************************)
(* Model of codegen/compile.go: the specializer (addDecl, hasMethod,       *)
(* Rewrite, implBytes) and Compile.                                        *)
(*                                                                         *)
(* A dialect file's syntax tree is modelled by one receiver spine: a       *)
(* sequence of nodes, node 1 an identifier, node p > 1 an expression whose *)
(* operand is node p - 1 (a call through a selector on it, a call of a     *)
(* plain function with it as argument, a parenthesis or an index           *)
(* expression around it).  The last node is the outermost expression.      *)
(* Every node carries its entry of the type table.                         *)
(***************************************************************************)
EXTENDS Integers, Sequences, FiniteSets, TLC

\* ------------------------------------------------------------------ bounds

\* Files in the list given to Compile.
MaxFiles == 2
\* Expression nodes above the identifiers, summed over the dialect files of
\* a unit drawn from every file list.
MaxUnitNodes == 1
\* The same for the units of one or two dialect files the walk is checked on.
MaxNodes == 3

\* ------------------------------------------------------------------ inputs

FileNames == {"a.ply", "b.ply", "c.go"}

\* filepath.Ext
Ext(arg) == IF arg \in {"a.ply", "b.ply"} THEN ".ply" ELSE ".go"

\* The static types of the checked unit: an unnamed type, a named type N
\* that declares the methods filter and sort on the value receiver N, and a
\* named type P that declares them on the pointer receiver *P.
TypeNames == {"int", "N", "P"}

IsNamed(ty) == ty \in {"N", "P"}

\* The methods a type declares, whatever the receiver: the ones a call
\* through a selector on an expression of the type resolves to.
DeclaredMethods(ty) == IF IsNamed(ty) THEN {"filter", "sort"} ELSE {}

\* types.NewMethodSet: the method set of a type, in its order.  The method
\* set of a named type holds the methods of the value receiver only.
NewMethodSet(ty) == IF ty = "N" THEN <<"filter", "sort">> ELSE <<>>

\* A constant.Value: <<>> is nil, <<n, d>> the exact rational n/d.
NoValue == <<>>
Values == {<<7, 1>>, <<5, 2>>}

SelNames == {"filter", "sort", "foo"}
FunNames == {"max", "f"}

Node(k, n, t, v) == [kind |-> k, name |-> n, ty |-> t, val |-> v]

Idents == {Node("ident", "x", t, NoValue) : t \in TypeNames}

\* The nodes a checked unit can hold above node `below`, the top of a spine
\* of length len: a parenthesis has the type of its operand, and a call has
\* a constant value only when it is a call of max on a constant operand.
NodesOver(below, len) ==
    {Node("selcall", m, t, NoValue) : m \in SelNames, t \in TypeNames}
      \cup {Node("funcall", g, t, NoValue) : g \in FunNames, t \in TypeNames}
      \cup (IF len = 1
              THEN {Node("funcall", "max", t, v) : t \in TypeNames, v \in Values}
              ELSE {})
      \cup {Node("paren", "", below.ty, NoValue)}
      \cup {Node("index", "", "int", NoValue)}

\* ---------------------------------------------------------------- registry

\* The keys of the two generator registries.
funcGenerators == {"max", "min"}
methodGenerators == {"filter", "map", "sort"}

\* The stages a pipeline can fuse: sort needs its whole input.
FusibleStages == {"filter", "map"}

IsCall(nd) == nd.kind \in {"selcall", "funcall"}

\* ------------------------------------------------------------- specializer

\* hasMethod with the search starting at the second method of the set.
hasMethodFromSecond(recv, method) ==
    LET set == NewMethodSet(recv.ty)
    IN \E i \in 2..Len(set) : set[i] = method

\* Lines 32-41: search the receiver type's method set for the name.
hasMethod(recv, method) ==
    LET set == NewMethodSet(recv.ty)
    IN \E i \in 1..Len(set) : set[i] = method

\* parser.ParseFile of "package " + s.pkg.Name + code: the declaration the
\* text holds, when the text parses.
ParsedFile(code) == [decl |-> code.decl]

\* addDecl parsing the text before it looks the name up.
addDeclParseFirst(s, filename, code) ==
    IF ~code.ok
      THEN [s |-> s, fatal |-> TRUE]
      ELSE IF filename \in DOMAIN s.pkg
             THEN [s |-> s, fatal |-> FALSE]
             ELSE [s |-> [s EXCEPT !.pkg = (filename :> ParsedFile(code)) @@ s.pkg],
                   fatal |-> FALSE]

\* Lines 43-55.  A result with fatal set is log.Fatal: the process ends.
addDecl(s, filename, code) ==
    IF filename \in DOMAIN s.pkg
      THEN [s |-> s, fatal |-> FALSE]
      ELSE IF ~code.ok
             THEN [s |-> s, fatal |-> TRUE]
             ELSE [s |-> [s EXCEPT !.pkg = (filename :> ParsedFile(code)) @@ s.pkg],
                   fatal |-> FALSE]

\* The loop without the test that breaks out of it: the post statement
\* then asserts a selector where there is none.
RECURSIVE chainLoopNoBreak(_, _, _, _)
chainLoopNoBreak(ast, cur, ok, chain) ==
    IF ~ok THEN [chain |-> chain, panic |-> FALSE]
    ELSE IF ast[cur].kind # "selcall"
           THEN [chain |-> Append(chain, cur), panic |-> TRUE]
    ELSE IF IsCall(ast[cur - 1])
           THEN chainLoopNoBreak(ast, cur - 1, TRUE, Append(chain, cur))
           ELSE chainLoopNoBreak(ast, 0, FALSE, Append(chain, cur))

\* Lines 80-87, the loop of the detector walk: cur is a node position (0 for
\* nil), ok the loop variable.  The post statement asserts cur.Fun to be a
\* selector and panics otherwise.
RECURSIVE chainLoop(_, _, _, _)
chainLoop(ast, cur, ok, chain) ==
    IF ~ok THEN [chain |-> chain, panic |-> FALSE]
    ELSE IF ast[cur].kind # "selcall" THEN [chain |-> chain, panic |-> FALSE]
    ELSE IF IsCall(ast[cur - 1])
           THEN chainLoop(ast, cur - 1, TRUE, Append(chain, cur))
           ELSE chainLoop(ast, 0, FALSE, Append(chain, cur))

\* buildPipeline: a plan for a chain of two or more calls whose stages are
\* all fusible, nil (FALSE) otherwise.
buildPipeline(ast, chain) ==
    Len(chain) >= 2 /\ \A i \in 1..Len(chain) : ast[chain[i]].name \in FusibleStages

\* The generators return the name of the declaration, which encodes the
\* operation and the instantiating type, and its source text.  Whether the
\* text parses is the generator's business: ok is an input of the model.
funcGen(ast, p, ok) ==
    LET name == <<ast[p].name, ast[p - 1].ty>>
    IN [name |-> name, code |-> [decl |-> name, ok |-> ok]]

methodGen(ast, p, ok) ==
    LET name == <<ast[p].name, ast[p - 1].ty>>
    IN [name |-> name, code |-> [decl |-> name, ok |-> ok]]

pipelineGen(ast, chain, ok) ==
    LET inner == chain[Len(chain)]
        name == <<"pipe">> \o [i \in 1..Len(chain) |-> ast[chain[i]].name]
                  \o <<ast[inner - 1].ty>>
    IN [name |-> name, code |-> [decl |-> name, ok |-> ok]]

\* constant.Value.ExactString: an integer prints as its digits, any other
\* rational as numerator/denominator.
ExactString(v) ==
    IF v[2] = 1 THEN <<ToString(v[1])>>
    ELSE <<ToString(v[1]), "/", ToString(v[2])>>

\* What Rewrite answers for a node it leaves alone.
Unchanged(s, p) ==
    [act |-> "none", rewrote |-> FALSE, name |-> <<>>, text |-> <<>>,
     chain |-> <<>>, panic |-> FALSE, s |-> s, fatal |-> FALSE, next |-> p - 1]

\* Lines 62-75: a call of a plain function.
rewriteIdent(s, ast, p, ok) ==
    LET n == ast[p] IN
    IF n.name \in funcGenerators
      THEN IF n.val # NoValue
             THEN [Unchanged(s, p) EXCEPT !.act = "const",
                                           !.text = ExactString(n.val),
                                           !.next = 0]
             ELSE LET g == funcGen(ast, p, ok)
                      d == addDecl(s, g.name, g.code)
                  IN [Unchanged(s, p) EXCEPT !.act = "func", !.rewrote = TRUE,
                                              !.name = g.name, !.s = d.s,
                                              !.fatal = d.fatal]
      ELSE Unchanged(s, p)

\* rewriteSelector recording the import with every generated method.
rewriteSelectorImportAlways(s, ast, p, ok) ==
    LET n == ast[p]
        w == chainLoop(ast, p, TRUE, <<>>)
    IN IF w.panic THEN [Unchanged(s, p) EXCEPT !.panic = TRUE, !.fatal = TRUE]
       ELSE IF buildPipeline(ast, w.chain)
         THEN LET g == pipelineGen(ast, w.chain, ok)
                  d == addDecl(s, g.name, g.code)
              IN [Unchanged(s, p) EXCEPT !.act = "pipeline", !.rewrote = TRUE,
                                          !.name = g.name, !.chain = w.chain,
                                          !.s = d.s, !.fatal = d.fatal,
                                          !.next = p - Len(w.chain)]
       ELSE IF n.name \in methodGenerators /\ ~hasMethod(ast[p - 1], n.name)
         THEN LET g == methodGen(ast, p, ok)
                  d == addDecl(s, g.name, g.code)
                  s2 == [d.s EXCEPT !.imports = @ \cup {"sort"}]
              IN [Unchanged(s, p) EXCEPT !.act = "method", !.rewrote = TRUE,
                                          !.name = g.name, !.chain = w.chain,
                                          !.s = IF d.fatal THEN s ELSE s2,
                                          !.fatal = d.fatal]
       ELSE [Unchanged(s, p) EXCEPT !.chain = w.chain]

\* Lines 77-101: a call through a selector.
rewriteSelector(s, ast, p, ok) ==
    LET n == ast[p]
        w == chainLoop(ast, p, TRUE, <<>>)
    IN IF w.panic THEN [Unchanged(s, p) EXCEPT !.panic = TRUE, !.fatal = TRUE]
       ELSE IF buildPipeline(ast, w.chain)
         THEN LET g == pipelineGen(ast, w.chain, ok)
                  d == addDecl(s, g.name, g.code)
              IN [Unchanged(s, p) EXCEPT !.act = "pipeline", !.rewrote = TRUE,
                                          !.name = g.name, !.chain = w.chain,
                                          !.s = d.s, !.fatal = d.fatal,
                                          !.next = p - Len(w.chain)]
       ELSE IF n.name \in methodGenerators /\ ~hasMethod(ast[p - 1], n.name)
         THEN LET g == methodGen(ast, p, ok)
                  d == addDecl(s, g.name, g.code)
                  s2 == IF n.name = "sort"
                          THEN [d.s EXCEPT !.imports = @ \cup {"sort"}]
                          ELSE d.s
              IN [Unchanged(s, p) EXCEPT !.act = "method", !.rewrote = TRUE,
                                          !.name = g.name, !.chain = w.chain,
                                          !.s = IF d.fatal THEN s ELSE s2,
                                          !.fatal = d.fatal]
       ELSE [Unchanged(s, p) EXCEPT !.chain = w.chain]

\* Lines 57-114.  conv is the named type of the conversion put around the
\* replacement, "" when there is none.  next is the node the traversal
\* visits after this one: the operand of the node Rewrite returned.
Rewrite(s, ast, p, ok) ==
    LET n == ast[p]
        r == IF n.kind = "funcall" THEN rewriteIdent(s, ast, p, ok)
             ELSE IF n.kind = "selcall" THEN rewriteSelector(s, ast, p, ok)
             ELSE Unchanged(s, p)
        conv == IF IsCall(n) /\ IsNamed(n.ty) /\ r.rewrote THEN n.ty ELSE ""
    IN [pos |-> p, act |-> r.act, name |-> r.name, text |-> r.text,
        chain |-> r.chain, conv |-> conv, s |-> r.s, fatal |-> r.fatal,
        panic |-> r.panic, next |-> r.next]

\* astutil.AddImport: the path joins the file's imports unless the file
\* imports it already.
AddImport(imps, path) ==
    IF \E k \in 1..Len(imps) : imps[k] = path THEN imps ELSE Append(imps, path)

\* Lines 190-193: add every import of the specializer to the file.
RECURSIVE addImports(_, _)
addImports(imps, paths) ==
    IF paths = {} THEN imps
    ELSE LET path == CHOOSE x \in paths : TRUE
         IN addImports(AddImport(imps, path), paths \ {path})

\* ast.MergePackageFiles with FilterFuncDuplicates: the declarations of the
\* files of the package, file by file, a function declared before left out.
RECURSIVE mergeDecls(_, _, _)
mergeDecls(pkg, names, out) ==
    IF names = {} THEN out
    ELSE LET nm == CHOOSE x \in names : TRUE
             d == pkg[nm].decl
         IN mergeDecls(pkg, names \ {nm},
                       IF \E k \in 1..Len(out) : out[k] = d THEN out ELSE Append(out, d))

\* Lines 116-121: the generated declarations, printed.
implBytes(s) == mergeDecls(s.pkg, DOMAIN s.pkg, <<>>)

\* ------------------------------------------------------------------ state

VARIABLES
    filenames,  \* the argument of Compile
    badParse,   \* the files of the list that do not parse
    badImport,  \* the files of the list with an import that does not install
    typeOK,     \* whether the unit type-checks
    budget,     \* expression nodes the remaining dialect files may hold
    pc,         \* where Compile stands
    i,          \* the index of the loop over the file list
    files,      \* the files parsed so far
    plyFiles,   \* the keys of plyFiles
    todo,       \* the dialect files the walk has not reached
    set,        \* the output mapping under construction
    cur,        \* the name of the dialect file being walked
    ast,        \* its syntax tree
    spec,       \* its specializer: pkg.Files and imports
    pos,        \* the node the traversal visits next, 0 when it is through
    log,        \* what Rewrite returned for the nodes visited in this file
    phases,     \* the phases run so far, one entry per run
    ret         \* what Compile returned

vars == <<filenames, badParse, badImport, typeOK, budget, pc, i, files,
          plyFiles, todo, set, cur, ast, spec, pos, log, phases, ret>>

input == <<filenames, badParse, badImport, typeOK>>
walk == <<cur, ast, spec, pos, log>>

RECURSIVE SeqsUpTo(_, _)
SeqsUpTo(S, n) ==
    IF n = 0 THEN {<<>>}
    ELSE LET shorter == SeqsUpTo(S, n - 1)
         IN shorter \cup {Append(q, x) : q \in shorter, x \in S}

Range(q) == {q[k] : k \in 1..Len(q)}

NoFile == ""
NoSpec == [pkg |-> <<>>, imports |-> {}]
NoRet == [returned |-> FALSE, isNil |-> TRUE, set |-> <<>>, err |-> "nil"]

\* The state when Compile is entered, for a file list among lists and a
\* unit of at most nodes expression nodes.
InitOf(lists, nodes) ==
    /\ filenames \in lists
    /\ badParse \in SUBSET Range(filenames)
    /\ badImport \in SUBSET Range(filenames)
    /\ typeOK \in BOOLEAN
    /\ budget = nodes
    /\ pc = "parse"
    /\ i = 1
    /\ files = <<>>
    /\ plyFiles = {}
    /\ todo = {}
    /\ set = <<>>
    /\ cur = NoFile
    /\ ast = <<>>
    /\ spec = NoSpec
    /\ pos = 0
    /\ log = <<>>
    /\ phases = <<>>
    /\ ret = NoRet

\* Any list of files, any outcome of the phases.
Init == InitOf(SeqsUpTo(FileNames, MaxFiles), MaxUnitNodes)

\* A unit of one dialect file, with a deeper tree.
InitWalk == InitOf({<<"a.ply">>}, MaxNodes)

\* A unit of two dialect files.
InitPair == InitOf({<<"a.ply", "b.ply">>}, MaxNodes)

\* return nil, err
ReturnNil(err) == [returned |-> TRUE, isNil |-> TRUE, set |-> <<>>, err |-> err]

\* ParseFile going on to the next file when one does not parse.
ParseFileSkip ==
    /\ pc = "parse"
    /\ i <= Len(filenames)
    /\ phases' = Append(phases, <<"parse", i>>)
    /\ LET arg == filenames[i] IN
       IF arg \in badParse
         THEN /\ i' = i + 1
              /\ UNCHANGED <<ret, pc, files, plyFiles>>
         ELSE /\ files' = Append(files, arg)
              /\ plyFiles' = IF Ext(arg) = ".ply" THEN plyFiles \cup {arg} ELSE plyFiles
              /\ i' = i + 1
              /\ UNCHANGED <<ret, pc>>
    /\ UNCHANGED <<input, budget, todo, set, walk>>

\* Lines 137-146: one turn of the loop that parses the files.
ParseFile ==
    /\ pc = "parse"
    /\ i <= Len(filenames)
    /\ phases' = Append(phases, <<"parse", i>>)
    /\ LET arg == filenames[i] IN
       IF arg \in badParse
         THEN /\ ret' = ReturnNil("parse")
              /\ pc' = "done"
              /\ UNCHANGED <<i, files, plyFiles>>
         ELSE /\ files' = Append(files, arg)
              /\ plyFiles' = IF Ext(arg) = ".ply" THEN plyFiles \cup {arg} ELSE plyFiles
              /\ i' = i + 1
              /\ UNCHANGED <<ret, pc>>
    /\ UNCHANGED <<input, budget, todo, set, walk>>

\* Lines 147-149: nothing to do without a dialect file.
CheckPlyFiles ==
    /\ pc = "parse"
    /\ i > Len(filenames)
    /\ IF plyFiles = {}
         THEN /\ ret' = ReturnNil("nil")
              /\ pc' = "done"
         ELSE /\ pc' = "install"
              /\ UNCHANGED ret
    /\ i' = 1
    /\ UNCHANGED <<input, budget, files, plyFiles, todo, set, walk, phases>>

\* Lines 152-159: install the imports of one file.
InstallImports ==
    /\ pc = "install"
    /\ i <= Len(files)
    /\ phases' = Append(phases, <<"install", i>>)
    /\ IF files[i] \in badImport
         THEN /\ ret' = ReturnNil("install")
              /\ pc' = "done"
              /\ UNCHANGED i
         ELSE /\ i' = i + 1
              /\ pc' = IF i = Len(files) THEN "check" ELSE "install"
              /\ UNCHANGED ret
    /\ UNCHANGED <<input, budget, files, plyFiles, todo, set, walk>>

\* Lines 162-174: type-check the unit.
TypeCheck ==
    /\ pc = "check"
    /\ phases' = Append(phases, <<"check", 0>>)
    /\ IF typeOK
         THEN /\ pc' = "walk"
              /\ todo' = plyFiles
              /\ set' = <<>>
              /\ UNCHANGED ret
         ELSE /\ ret' = ReturnNil("check")
              /\ pc' = "done"
              /\ UNCHANGED <<todo, set>>
    /\ UNCHANGED <<input, budget, i, files, plyFiles, walk>>

\* The tree of a dialect file: tree, or tree with up to k more nodes on it.
RECURSIVE DrawTree(_, _)
DrawTree(tree, k) ==
    \/ /\ ast' = tree
       /\ pos' = Len(tree)
       /\ budget' = k
    \/ /\ k > 0
       /\ \E l \in NodesOver(tree[Len(tree)], Len(tree)) : DrawTree(Append(tree, l), k - 1)

\* Lines 175-188: the next dialect file, in the order the map yields, with
\* a fresh specializer.  The file's tree is drawn here.
BeginFile ==
    /\ pc = "walk"
    /\ \E name \in todo, b \in Idents :
         /\ cur' = name
         /\ DrawTree(<<b>>, budget)
    /\ spec' = NoSpec
    /\ log' = <<>>
    /\ pc' = "rewrite"
    /\ UNCHANGED <<input, i, files, plyFiles, todo, set, phases, ret>>

\* What the log keeps of a call of Rewrite.
Entry(r, s, ok) ==
    [pos |-> r.pos, act |-> r.act, name |-> r.name, text |-> r.text,
     chain |-> r.chain, conv |-> r.conv, fatal |-> r.fatal, panic |-> r.panic,
     ok |-> (r.act \in {"func", "pipeline", "method"}) => ok, had |-> r.name \in DOMAIN s.pkg,
     pkgSame |-> r.s.pkg = s.pkg, impSame |-> r.s.imports = s.imports,
     next |-> r.next]

\* Line 188: gorewrite visits one node, then the children of the node
\* Rewrite returned.  ok says whether the text of a generator invoked here
\* parses.
RewriteNode ==
    /\ pc = "rewrite"
    /\ pos > 0
    /\ \E ok \in BOOLEAN :
         LET r == Rewrite(spec, ast, pos, ok) IN
         /\ log' = Append(log, Entry(r, spec, ok))
         /\ IF r.fatal
              THEN /\ pc' = "fatal"
                   /\ UNCHANGED <<spec, pos>>
              ELSE /\ spec' = r.s
                   /\ pos' = r.next
                   /\ UNCHANGED pc
    /\ UNCHANGED <<input, budget, i, files, plyFiles, todo, set, cur, ast, phases, ret>>

\* EndFile with the output mapping made anew for every file.
EndFileFresh ==
    /\ pc = "rewrite"
    /\ pos = 0
    /\ \E own \in {<<>>, <<"sort">>} :
         LET code == [file |-> cur, own |-> own,
                      imports |-> addImports(own, spec.imports)]
             impls == implBytes(spec)
         IN set' = (cur :> [code |-> code, impls |-> impls])
    /\ todo' = todo \ {cur}
    /\ cur' = NoFile
    /\ ast' = <<>>
    /\ spec' = NoSpec
    /\ log' = <<>>
    /\ pc' = "walk"
    /\ UNCHANGED <<input, budget, i, files, plyFiles, pos, phases, ret>>

\* Lines 190-198: the file is walked; its entry of the output.  own is the
\* list of imports the file came with, read here for the first time.  The
\* turn of the loop ends and its locals go out of scope.
EndFile ==
    /\ pc = "rewrite"
    /\ pos = 0
    /\ \E own \in {<<>>, <<"sort">>} :
         LET code == [file |-> cur, own |-> own,
                      imports |-> addImports(own, spec.imports)]
             impls == implBytes(spec)
         IN set' = (cur :> [code |-> code, impls |-> impls]) @@ set
    /\ todo' = todo \ {cur}
    /\ cur' = NoFile
    /\ ast' = <<>>
    /\ spec' = NoSpec
    /\ log' = <<>>
    /\ pc' = "walk"
    /\ UNCHANGED <<input, budget, i, files, plyFiles, pos, phases, ret>>

\* Line 201.
Return ==
    /\ pc = "walk"
    /\ todo = {}
    /\ ret' = [returned |-> TRUE, isNil |-> FALSE, set |-> set, err |-> "nil"]
    /\ pc' = "done"
    /\ UNCHANGED <<input, budget, i, files, plyFiles, todo, set, walk, phases>>

Next ==
    \/ ParseFile
    \/ CheckPlyFiles
    \/ InstallImports
    \/ TypeCheck
    \/ BeginFile
    \/ RewriteNode
    \/ EndFile
    \/ Return

Spec == Init /\ [][Next]_vars

SpecWalk == InitWalk /\ [][Next]_vars

SpecPair == InitPair /\ [][Next]_vars

\* ----------------------------------------------------------------- claims

Entries == {log[k] : k \in 1..Len(log)}

\* The node an entry of the log is about, and its receiver or operand.
NodeOf(e) == ast[e.pos]
RecvOf(e) == ast[e.pos - 1]

Generated(e) == e.act \in {"func", "pipeline", "method"}

Count(q, x) == Cardinality({k \in 1..Len(q) : q[k] = x})

Succeeded == ret.returned /\ ret.err = "nil" /\ ~ret.isNil

\* How many declarations named d the whole output holds.
RECURSIVE TotalCount(_, _, _)
TotalCount(out, fs, d) ==
    IF fs = {} THEN 0
    ELSE LET f == CHOOSE x \in fs : TRUE
         IN Count(out[f].impls, d) + TotalCount(out, fs \ {f}, d)

\* C1: the output of a compile holds exactly one declaration of every name
\* generated, however many call sites in however many dialect files ask for
\* it.
C1_DedupWholeCompile ==
    Succeeded =>
      \A f \in DOMAIN ret.set : \A d \in Range(ret.set[f].impls) :
        TotalCount(ret.set, DOMAIN ret.set, d) = 1

\* C2: a call through a selector whose receiver type defines the method
\* itself is left alone: the node is returned as it is, no declaration is
\* added, no import recorded.
C2_MethodPrecedence ==
    \A e \in Entries :
      (~e.fatal /\ NodeOf(e).kind = "selcall"
         /\ NodeOf(e).name \in DeclaredMethods(RecvOf(e).ty))
        => (e.act = "none" /\ e.conv = "" /\ e.pkgSame /\ e.impSame)

\* C3: every replacement of a call whose type is a named type is wrapped in
\* a conversion to that type, the replacement by a constant included, and a
\* call left alone is never wrapped.
C3_TypePreservingWrap ==
    \A e \in Entries :
      ~e.fatal =>
        /\ (e.act # "none" /\ IsNamed(NodeOf(e).ty)) => e.conv = NodeOf(e).ty
        /\ e.act = "none" => e.conv = ""

\* strconv.Atoi on the digits ToString prints.
Atoi(str) == CHOOSE n \in 0..9 : ToString(n) = str

\* The value of the expression the printed identifier reads as in the host
\* language: an integer literal, or a quotient of two integer constants,
\* which is an integer division.
GoValue(text) ==
    IF Len(text) = 1 THEN <<Atoi(text[1]), 1>>
    ELSE <<Atoi(text[1]) \div Atoi(text[3]), 1>>

\* C4: a call of a registered free function with a constant value is
\* replaced by a literal equal to that value; no generator runs, the
\* synthetic package and the imports stay as they are.
C4_ConstantFolding ==
    \A e \in Entries :
      (~e.fatal /\ NodeOf(e).kind = "funcall"
         /\ NodeOf(e).name \in funcGenerators /\ NodeOf(e).val # NoValue)
        => /\ e.act = "const"
           /\ GoValue(e.text) = NodeOf(e).val
           /\ e.name = <<>>
           /\ e.pkgSame /\ e.impSame

NoRetry == \A j, k \in 1..Len(phases) : j # k => phases[j] # phases[k]

HasPly == \E k \in 1..Len(filenames) : Ext(filenames[k]) = ".ply"

AllPhasesPassed ==
    /\ badParse = {} /\ badImport = {} /\ typeOK
    /\ \A k \in 1..Len(filenames) : <<"parse", k>> \in Range(phases)
    /\ \A k \in 1..Len(filenames) : <<"install", k>> \in Range(phases)
    /\ <<"check", 0>> \in Range(phases)

\* C5 as stated: any file that does not parse, any import that does not
\* install, or a unit that does not type-check makes Compile return an error
\* and a nil mapping; a non-empty mapping comes only after all three phases
\* passed for every file; no phase runs twice.
C5_AllOrNothing ==
    /\ NoRetry
    /\ ret.returned =>
         /\ (badParse # {} \/ badImport # {} \/ ~typeOK)
              => (ret.err # "nil" /\ ret.isNil)
         /\ (~ret.isNil /\ DOMAIN ret.set # {}) => AllPhasesPassed

\* C5 amended: the imports and the type check count only when the list
\* holds a dialect file; without one Compile returns a nil mapping and no
\* error as soon as every file has parsed.
C5_AllOrNothingAmended ==
    /\ NoRetry
    /\ ret.returned =>
         /\ (badParse # {} \/ (HasPly /\ (badImport # {} \/ ~typeOK)))
              => (ret.err # "nil" /\ ret.isNil)
         /\ (badParse = {} /\ ~HasPly)
              => (ret.err = "nil" /\ ret.isNil
                    /\ \A q \in Range(phases) : q[1] = "parse")
         /\ (~ret.isNil /\ DOMAIN ret.set # {}) => AllPhasesPassed

C5_Witness ==
    /\ ret.returned /\ ret.err = "check" /\ ret.isNil
    /\ Len(filenames) = 2 /\ HasPly

\* C6 as stated: a successful compile of k >= 1 dialect files returns k + 1
\* entries, one per file and one for the generated declarations.
C6_OutputShape ==
    (Succeeded /\ plyFiles # {})
      => Cardinality(DOMAIN ret.set) = Cardinality(plyFiles) + 1

\* C6 amended: it returns exactly k entries, keyed by the names of the k
\* distinct dialect files, each holding that file's rewritten source
\* followed by the declarations generated for it; there is no entry apart.
C6_OutputShapeAmended ==
    (Succeeded /\ plyFiles # {})
      => /\ DOMAIN ret.set = plyFiles
         /\ Cardinality(DOMAIN ret.set) = Cardinality(plyFiles)
         /\ \A f \in DOMAIN ret.set : ret.set[f].code.file = f

C6_Witness ==
    /\ Succeeded
    /\ Cardinality(DOMAIN ret.set) = 2
    /\ \E f \in DOMAIN ret.set : Len(ret.set[f].impls) >= 1

SortApplied(e) == e.act = "method" /\ NodeOf(e).name = "sort" /\ ~e.fatal

\* C7: every call of sort on a receiver whose type has no sort of its own
\* generates the declaration and records the import "sort"; the import set
\* holds "sort" exactly when a sort generator was applied, and the file
\* written out imports "sort" exactly once then, however many call sites.
C7_SortImportOnce ==
    /\ [](pc = "rewrite" =>
          /\ \A e \in Entries :
               (NodeOf(e).kind = "selcall" /\ NodeOf(e).name = "sort"
                  /\ "sort" \notin DeclaredMethods(RecvOf(e).ty))
                 => (SortApplied(e) /\ e.name \in DOMAIN spec.pkg
                       /\ "sort" \in spec.imports)
          /\ "sort" \in spec.imports <=> \E e \in Entries : SortApplied(e))
    /\ [][(pc = "rewrite" /\ pos = 0 /\ pc' = "walk" /\ "sort" \in spec.imports)
            => Count(set'[cur].code.imports, "sort") = 1]_vars

C7_Witness ==
    \E f \in DOMAIN set :
      /\ set[f].code.own = <<"sort">>
      /\ set[f].code.imports = <<"sort">>
      /\ Cardinality({d \in Range(set[f].impls) : d[1] = "sort"}) = 2

\* The chain collected at the node of e holds a stage no pipeline fuses.
Rejected(e) ==
    /\ NodeOf(e).kind = "selcall"
    /\ \E k \in 1..Len(e.chain) : ast[e.chain[k]].name \notin FusibleStages

AllFusible(ch) == \A k \in 1..Len(ch) : ast[ch[k]].name \in FusibleStages

\* C8 as stated: after a chain is rejected no call of that chain, the inner
\* ones visited later included, gets a fused declaration.
C8_ChainRejection ==
    \A j, k \in 1..Len(log) :
      (j <= k /\ Rejected(log[j]) /\ log[k].pos \in Range(log[j].chain))
        => log[k].act \in {"none", "method"}

\* C8 amended: the outermost call of a rejected chain gets single-method
\* handling only (a generated method when the registry knows the name and
\* the method set of the receiver type does not hold it, nothing otherwise), and its
\* receiver is visited next as the outermost call of the rest of the chain,
\* which is fused when it has two or more stages, all of them fusible.
C8_ChainRejectionAmended ==
    \A j \in 1..Len(log) :
      LET e == log[j] IN
      Rejected(e) =>
        /\ e.act = IF NodeOf(e).name \in methodGenerators
                        /\ NodeOf(e).name \notin Range(NewMethodSet(RecvOf(e).ty))
                     THEN "method" ELSE "none"
        /\ e.next = e.pos - 1
        /\ (j < Len(log) /\ Len(e.chain) >= 2) =>
             /\ log[j + 1].pos = e.pos - 1
             /\ log[j + 1].chain = Tail(e.chain)
             /\ log[j + 1].act = "pipeline"
                  <=> (Len(e.chain) >= 3 /\ AllFusible(Tail(e.chain)))

C8_Witness ==
    \E j \in 1..Len(log) :
      /\ j < Len(log)
      /\ Rejected(log[j])
      /\ log[j].act = "method"
      /\ log[j + 1].act = "pipeline"

\* C9 as stated: generated text that does not parse always ends the
\* process, whatever was registered before, and text under a name already
\* present leaves the package as it is.
C9_MalformedAlwaysFatal ==
    \A e \in Entries :
      Generated(e) =>
        /\ ~e.ok => (e.fatal /\ pc = "fatal")
        /\ e.had => e.pkgSame

\* C9 amended: text that does not parse ends the process when its name is
\* not in the package yet; under a name already present the text is not
\* parsed at all: the package stays as it is and the compile goes on.
C9_MalformedFatalWhenNew ==
    \A e \in Entries :
      Generated(e) =>
        /\ (~e.ok /\ ~e.had) => (e.fatal /\ pc = "fatal")
        /\ e.had => (e.pkgSame /\ ~e.fatal)
        /\ (e.ok /\ ~e.had) => (~e.fatal /\ ~e.pkgSame)

C9_Witness ==
    /\ pc = "fatal"
    /\ Len(log) >= 2
    /\ log[Len(log)].fatal /\ ~log[Len(log)].ok /\ ~log[Len(log)].had
    /\ \E k \in 1..(Len(log) - 1) : Generated(log[k])

\* C10: the walk from a call through a selector ends without a panic with
\* a chain that starts at that call, runs outer to inner through calls
\* through selectors, each the receiver of the one before, and stops at the
\* first receiver that is no call through a selector.
C10_ChainDetection ==
    \A e \in Entries :
      NodeOf(e).kind = "selcall" =>
        /\ ~e.panic
        /\ Len(e.chain) >= 1
        /\ e.chain[1] = e.pos
        /\ \A k \in 1..Len(e.chain) :
             /\ ast[e.chain[k]].kind = "selcall"
             /\ k < Len(e.chain) => e.chain[k + 1] = e.chain[k] - 1
        /\ ast[e.chain[Len(e.chain)] - 1].kind # "selcall"

C10_Witness ==
    \E e \in Entries :
      /\ Len(e.chain) = 2
      /\ ast[e.chain[2] - 1].kind = "funcall"

====
